---- MODULE Spec2Model ----
(***************************************************************************)
(* CWData (crosswalk/data.py): construction of the cross-walk data         *)
(* structure from the caller's parallel arrays.                            *)
(*                                                                         *)
(* A numpy array is a sequence of integers, positions 1..n (dorm_idx keeps *)
(* the zero-based ranks of the source).  A str label is the sequence of    *)
(* its decimal digits, compared lexicographically as numpy compares        *)
(* unicode arrays.  A dict is a function from keys to arrays; a key is a   *)
(* pair <<type, text>> so that isinstance(key, str) can fail.  An optional *)
(* value is a record [some, val].                                          *)
(*                                                                         *)
(* The caller owns one dataset (data) and one covariate dict object        *)
(* (callerCovs) and calls the constructor repeatedly; an aggregate built   *)
(* from covs=<the dict> holds a reference to that same object.             *)
(***************************************************************************)
EXTENDS Integers, Sequences, FiniteSets, TLC

VARIABLES data, callerCovs, last, prev

vars == <<data, callerCovs, last, prev>>

\* Largest number of observations of the caller's dataset.
MaxObs == 2

---------------------------------------------------------------------------
\* Values

None == [some |-> FALSE, val |-> <<>>]
Some(v) == [some |-> TRUE, val |-> v]

Range(s) == {s[i] : i \in DOMAIN s}

Intercept == <<"str", "intercept">>
CovX == <<"str", "x">>
CovK == <<"int", "7">>
EmptyDict == <<>>


\* ndarray.astype(str) on one integer label: its decimal digits.
RECURSIVE ToStr(_)
ToStr(k) == IF k < 10 THEN <<k>> ELSE ToStr(k \div 10) \o <<k % 10>>

astype_str(arr) == [i \in DOMAIN arr |-> ToStr(arr[i])]

\* Order of numpy unicode strings: lexicographic by code point.
StrLess(a, b) ==
    \E k \in 1..(Len(a) + 1) :
        /\ \A j \in 1..(k - 1) : j <= Len(b) /\ a[j] = b[j]
        /\ \/ k = Len(a) + 1 /\ Len(b) >= k
           \/ k <= Len(a) /\ k <= Len(b) /\ a[k] < b[k]

\* The order of an array's dtype: numbers by value, strings as above.
Less(a, b, dtype) == IF dtype = "num" THEN a < b ELSE StrLess(a, b)

ones(n) == [i \in 1..n |-> 1]

hstack(a, b) == a \o b

\* arr[idx] (fancy indexing): a new array.
Take(arr, idx) == [i \in DOMAIN idx |-> arr[idx[i]]]

\* dict.update({k: v})
Update(d, k, v) == (k :> v) @@ d

\* np.argmax / np.argmin: the first position of the extreme value.
argmax(s) == CHOOSE i \in DOMAIN s :
    (\A j \in DOMAIN s : s[j] <= s[i]) /\ (\A j \in 1..(i - 1) : s[j] < s[i])
argmin(s) == CHOOSE i \in DOMAIN s :
    (\A j \in DOMAIN s : s[j] >= s[i]) /\ (\A j \in 1..(i - 1) : s[j] > s[i])

\* np.argsort(a) with the default kind ("quicksort", not stable): any
\* permutation that puts a in non-decreasing order.
argsort(a) ==
    {p \in [DOMAIN a -> DOMAIN a] :
        /\ \A i, j \in DOMAIN a : i # j => p[i] # p[j]
        /\ \A i, j \in DOMAIN a : i < j => a[p[i]] <= a[p[j]]}

\* utils.array_structure on an array of the given dtype: (number of distinct
\* values, count per distinct value, ascending distinct values).
array_structure(arr, dtype) ==
    LET S == Range(arr)
        unique == [i \in 1..Cardinality(S) |->
                     CHOOSE x \in S : Cardinality({y \in S : Less(y, x, dtype)}) = i - 1]
        sizes == [i \in 1..Cardinality(S) |->
                     Cardinality({j \in DOMAIN arr : arr[j] = unique[i]})]
    IN  [num |-> Cardinality(S), sizes |-> sizes, unique |-> unique]

\* utils.is_numerical_array(x, shape=(n,))
is_numerical_array(x, n) == Len(x) = n /\ \A i \in DOMAIN x : x[i] \in Int

---------------------------------------------------------------------------
\* CWData

\* intercept_policy without the override of the opt-out.
intercept_policy_no_override(covs, add_intercept, num_obs) ==
    [warned |-> FALSE,
     covs |-> IF add_intercept THEN Update(covs, Intercept, ones(num_obs)) ELSE covs]

\* __init__, the intercept policy: an empty mapping with the opt-out is
\* overridden with a warning; the intercept is written into the mapping.
intercept_policy(covs, add_intercept, num_obs) ==
    LET warned == (DOMAIN covs = {}) /\ ~add_intercept
        add == add_intercept \/ warned
    IN  [warned |-> warned,
         covs |-> IF add THEN Update(covs, Intercept, ones(num_obs)) ELSE covs]

\* check with obs_se >= 0.0 in place of obs_se > 0.0.
check_non_negative(self) ==
    /\ is_numerical_array(self.obs, self.num_obs)
    /\ is_numerical_array(self.obs_se, self.num_obs)
    /\ \A i \in DOMAIN self.obs_se : self.obs_se[i] >= 0
    /\ Len(self.alt_dorms) = self.num_obs
    /\ Len(self.ref_dorms) = self.num_obs
    /\ Cardinality(DOMAIN self.covs) = self.num_covs
    /\ \A cov_name \in DOMAIN self.covs :
          /\ cov_name[1] = "str"
          /\ is_numerical_array(self.covs[cov_name], self.num_obs)
    /\ self.study_id.some => is_numerical_array(self.study_id.val, self.num_obs)

\* CWData.check: TRUE when no assertion fails.
check(self) ==
    /\ is_numerical_array(self.obs, self.num_obs)
    /\ is_numerical_array(self.obs_se, self.num_obs)
    /\ \A i \in DOMAIN self.obs_se : self.obs_se[i] > 0
    /\ Len(self.alt_dorms) = self.num_obs
    /\ Len(self.ref_dorms) = self.num_obs
    /\ Cardinality(DOMAIN self.covs) = self.num_covs
    /\ \A cov_name \in DOMAIN self.covs :
          /\ cov_name[1] = "str"
          /\ is_numerical_array(self.covs[cov_name], self.num_obs)
    /\ self.study_id.some => is_numerical_array(self.study_id.val, self.num_obs)

\* sort_by_study_id that leaves obs_se in the order given.
sort_by_study_id_not_obs_se(self, sort_id) ==
    IF self.study_id.some
    THEN [self EXCEPT
            !.study_id = Some(Take(self.study_id.val, sort_id)),
            !.obs = Take(self.obs, sort_id),
            !.alt_dorms = Take(self.alt_dorms, sort_id),
            !.ref_dorms = Take(self.ref_dorms, sort_id),
            !.covs = [cov_name \in DOMAIN self.covs |->
                        Take(self.covs[cov_name], sort_id)]]
    ELSE self

\* sort_by_study_id that leaves study_id in the order given.
sort_by_study_id_not_study_id(self, sort_id) ==
    IF self.study_id.some
    THEN [self EXCEPT
            !.obs = Take(self.obs, sort_id),
            !.obs_se = Take(self.obs_se, sort_id),
            !.alt_dorms = Take(self.alt_dorms, sort_id),
            !.ref_dorms = Take(self.ref_dorms, sort_id),
            !.covs = [cov_name \in DOMAIN self.covs |->
                        Take(self.covs[cov_name], sort_id)]]
    ELSE self

\* CWData.sort_by_study_id, with sort_id the result of np.argsort.
sort_by_study_id(self, sort_id) ==
    IF self.study_id.some
    THEN [self EXCEPT
            !.study_id = Some(Take(self.study_id.val, sort_id)),
            !.obs = Take(self.obs, sort_id),
            !.obs_se = Take(self.obs_se, sort_id),
            !.alt_dorms = Take(self.alt_dorms, sort_id),
            !.ref_dorms = Take(self.ref_dorms, sort_id),
            !.covs = [cov_name \in DOMAIN self.covs |->
                        Take(self.covs[cov_name], sort_id)]]
    ELSE self

\* dorm_idx counted from one.
dorm_idx_one_based(unique_dorms) ==
    [dorm \in Range(unique_dorms) |->
        CHOOSE i \in DOMAIN unique_dorms : unique_dorms[i] = dorm]

\* __init__: dorm_idx, the position of each label in unique_dorms.
dorm_idx(unique_dorms) ==
    [dorm \in Range(unique_dorms) |->
        (CHOOSE i \in DOMAIN unique_dorms : unique_dorms[i] = dorm) - 1]

\* __init__: the study structure.
study_structure(study_id, num_obs) ==
    IF ~study_id.some
    THEN [num_studies |-> num_obs,
          study_sizes |-> [i \in 1..num_obs |-> 1],
          unique_study_id |-> None]
    ELSE LET st == array_structure(study_id.val, "num")
         IN  [num_studies |-> st.num,
              study_sizes |-> st.sizes,
              unique_study_id |-> Some(st.unique)]

\* __init__ up to the call of check: the fields assigned from the arguments.
init_fields(covs, covs_given, study_id, add_intercept) ==
    LET num_obs == Len(data.obs)
        pol == intercept_policy(covs, add_intercept, num_obs)
    IN  [obs |-> data.obs,
         obs_se |-> data.obs_se,
         alt_dorms |-> astype_str(data.alt_dorms),
         ref_dorms |-> astype_str(data.ref_dorms),
         covs |-> pol.covs,
         covs_is_caller |-> covs_given,
         study_id |-> study_id,
         num_obs |-> num_obs,
         num_covs |-> Cardinality(DOMAIN pol.covs)]

\* __init__ after check: the definition and study structures.
init_structure(self) ==
    LET d == array_structure(hstack(self.alt_dorms, self.ref_dorms), "str")
        a == array_structure(self.alt_dorms, "str")
        r == array_structure(self.ref_dorms, "str")
        st == study_structure(self.study_id, self.num_obs)
    IN  [obs |-> self.obs,
         obs_se |-> self.obs_se,
         alt_dorms |-> self.alt_dorms,
         ref_dorms |-> self.ref_dorms,
         covs |-> self.covs,
         covs_is_caller |-> self.covs_is_caller,
         study_id |-> self.study_id,
         num_obs |-> self.num_obs,
         num_covs |-> self.num_covs,
         num_dorms |-> d.num,
         dorm_sizes |-> d.sizes,
         unique_dorms |-> d.unique,
         num_alt_dorms |-> a.num,
         alt_dorm_sizes |-> a.sizes,
         unique_alt_dorms |-> a.unique,
         num_ref_dorms |-> r.num,
         ref_dorm_sizes |-> r.sizes,
         unique_ref_dorms |-> r.unique,
         max_dorm |-> d.unique[argmax(d.sizes)],
         min_dorm |-> d.unique[argmin(d.sizes)],
         max_alt_dorm |-> a.unique[argmax(a.sizes)],
         max_ref_dorm |-> r.unique[argmax(r.sizes)],
         \* min_alt_dorm is assigned twice; the second assignment stays.
         min_alt_dorm |-> r.unique[argmin(r.sizes)],
         dorm_idx |-> dorm_idx(d.unique),
         num_studies |-> st.num_studies,
         study_sizes |-> st.study_sizes,
         unique_study_id |-> st.unique_study_id]

NoObject == <<>>

NoCall ==
    [called |-> FALSE, covs_given |-> FALSE, sid_given |-> FALSE,
     add_intercept |-> FALSE, covs_in |-> EmptyDict, covs_checked |-> EmptyDict,
     warned |-> FALSE, trace |-> <<>>, ok |-> FALSE, sort_id |-> <<>>,
     self |-> NoObject]

\* What the object's covs attribute refers to now.
Covs(self) == IF self.covs_is_caller THEN callerCovs ELSE self.covs

\* One call CWData(obs, obs_se, alt_dorms, ref_dorms, covs, study_id,
\* add_intercept), to its return or to the exception that ends it.
Construct(covs_given, sid_given, add_intercept) ==
    \E covs \in {IF covs_given THEN callerCovs ELSE EmptyDict},
       study_id \in {IF sid_given THEN Some(data.study_id) ELSE None} :
    \E self1 \in {init_fields(covs, covs_given, study_id, add_intercept)} :
    \E call \in {[called |-> TRUE, covs_given |-> covs_given,
                  sid_given |-> sid_given, add_intercept |-> add_intercept,
                  covs_in |-> covs, covs_checked |-> self1.covs,
                  warned |-> intercept_policy(covs, add_intercept, Len(data.obs)).warned,
                  trace |-> <<>>, ok |-> FALSE,
                  sort_id |-> <<>>, self |-> NoObject]} :
        /\ UNCHANGED data
        /\ IF ~check(self1)
           THEN \* AssertionError out of check
                /\ last' = [call EXCEPT !.trace = <<"intercept", "check">>]
                /\ callerCovs' = IF covs_given THEN self1.covs ELSE callerCovs
           ELSE IF self1.num_obs = 0
           THEN \* np.argmax of an empty array raises ValueError
                /\ last' = [call EXCEPT
                              !.trace = <<"intercept", "check", "dorm_structure">>]
                /\ callerCovs' = IF covs_given THEN self1.covs ELSE callerCovs
           ELSE \E self2 \in {init_structure(self1)} :
                \E sort_id \in (IF sid_given THEN argsort(data.study_id)
                                             ELSE {<<>>}) :
                \E self3 \in {sort_by_study_id(self2, sort_id)} :
                    /\ last' = [call EXCEPT
                                  !.trace = <<"intercept", "check",
                                              "dorm_structure", "dorm_idx",
                                              "study_structure", "sort">>,
                                  !.ok = TRUE,
                                  !.sort_id = sort_id,
                                  !.self = self3]
                    /\ callerCovs' = IF covs_given THEN self3.covs
                                                   ELSE callerCovs

\* The records the caller's dataset is drawn from: standard errors that are
\* positive, zero and negative, labels that are equal and different, study
\* ids that tie and differ.
Rows ==
    {[obs_se |-> 1, alt_dorms |-> 2, ref_dorms |-> 10, study_id |-> 2],
     [obs_se |-> 2, alt_dorms |-> 10, ref_dorms |-> 2, study_id |-> 1],
     [obs_se |-> 3, alt_dorms |-> 10, ref_dorms |-> 10, study_id |-> 1],
     [obs_se |-> 1, alt_dorms |-> 2, ref_dorms |-> 2, study_id |-> 2],
     [obs_se |-> 0, alt_dorms |-> 2, ref_dorms |-> 10, study_id |-> 1],
     [obs_se |-> -1, alt_dorms |-> 10, ref_dorms |-> 2, study_id |-> 2]}

\* The caller's dataset: n records in any order, obs[i] tags record i.
Datasets ==
    UNION {{[obs |-> [i \in 1..n |-> 10 * i],
             obs_se |-> [i \in 1..n |-> rows[i].obs_se],
             alt_dorms |-> [i \in 1..n |-> rows[i].alt_dorms],
             ref_dorms |-> [i \in 1..n |-> rows[i].ref_dorms],
             study_id |-> [i \in 1..n |-> rows[i].study_id]]
              : rows \in [1..n -> Rows]} : n \in 0..MaxObs}

\* The caller's covariate dict: empty, or "x" (of the dataset's length or
\* one longer), an own "intercept" column of 2s, a column under the key 7.
CallerDicts(n) ==
    LET x == [i \in 1..n |-> 50 + i]
        x_long == [i \in 1..(n + 1) |-> 50 + i]
        twos == [i \in 1..n |-> 2]
    IN  {EmptyDict,
         CovX :> x,
         CovX :> x_long,
         Intercept :> twos,
         (CovX :> x) @@ (Intercept :> twos),
         (CovX :> x) @@ (CovK :> twos)}

Init ==
    /\ data \in Datasets
    /\ callerCovs \in CallerDicts(Len(data.obs))
    /\ last = NoCall
    /\ prev = NoCall

\* A call whose result replaces the object the caller held.
Call ==
    /\ \E covs_given \in BOOLEAN, sid_given \in BOOLEAN, add_intercept \in BOOLEAN :
          Construct(covs_given, sid_given, add_intercept)
    /\ UNCHANGED prev

\* A call after which the caller also keeps what the call before returned.
CallKeeping ==
    /\ \E covs_given \in BOOLEAN, sid_given \in BOOLEAN, add_intercept \in BOOLEAN :
          Construct(covs_given, sid_given, add_intercept)
    /\ prev' = last

Next == Call

Spec == Init /\ [][Next]_vars

NextKeeping == CallKeeping

SpecKeeping == Init /\ [][NextKeeping]_vars

---------------------------------------------------------------------------
\* Properties

IsPermutation(p, n) ==
    /\ DOMAIN p = 1..n
    /\ \A i \in 1..n : p[i] \in 1..n
    /\ \A i, j \in 1..n : i # j => p[i] # p[j]

\* The sum of the first k entries of s.
RECURSIVE SumTo(_, _)
SumTo(s, k) == IF k = 0 THEN 0 ELSE SumTo(s, k - 1) + s[k]

\* C1: a construction with study_id that returns leaves study_id in
\* non-decreasing order, and with p the permutation it used, position i of
\* obs, obs_se, alt_dorms, ref_dorms, study_id and of every covariate column
\* holds the value that record p[i] had when the inputs were validated.
C1_LockStepPermutation ==
    (last.ok /\ last.sid_given) =>
        LET self == last.self
            p == last.sort_id
            n == Len(data.obs)
        IN  /\ IsPermutation(p, n)
            /\ \A i \in 1..(n - 1) : self.study_id.val[i] <= self.study_id.val[i + 1]
            /\ DOMAIN self.obs = 1..n /\ DOMAIN self.obs_se = 1..n
            /\ DOMAIN self.alt_dorms = 1..n /\ DOMAIN self.ref_dorms = 1..n
            /\ DOMAIN self.study_id.val = 1..n
            /\ DOMAIN self.covs = DOMAIN last.covs_checked
            /\ \A i \in 1..n :
                 /\ self.obs[i] = data.obs[p[i]]
                 /\ self.obs_se[i] = data.obs_se[p[i]]
                 /\ self.alt_dorms[i] = ToStr(data.alt_dorms[p[i]])
                 /\ self.ref_dorms[i] = ToStr(data.ref_dorms[p[i]])
                 /\ self.study_id.val[i] = data.study_id[p[i]]
                 /\ \A name \in DOMAIN self.covs :
                      /\ DOMAIN self.covs[name] = 1..n
                      /\ self.covs[name][i] = last.covs_checked[name][p[i]]

\* A sorted construction that moved records and carried the caller's "x".
C1_Witness ==
    /\ last.ok /\ last.sid_given /\ last.covs_given
    /\ CovX \in DOMAIN last.self.covs
    /\ \E i \in DOMAIN last.sort_id : last.sort_id[i] # i
    /\ \E i, j \in DOMAIN data.obs_se : data.obs_se[i] # data.obs_se[j]

\* C2: the sort is stable: of two records with equal study_id, the one
\* given first comes first in the aggregate.
C2_StableSort ==
    (last.ok /\ last.sid_given) =>
        \A i, j \in DOMAIN last.sort_id :
            (i < j /\ last.self.study_id.val[i] = last.self.study_id.val[j])
                => last.sort_id[i] < last.sort_id[j]

\* C3: a construction given a zero or negative obs_se ends in check, before
\* any structure is resolved or any sort runs, and returns nothing; every
\* aggregate returned has only positive obs_se.
C3_NonPositiveSEFails ==
    /\ (last.called /\ \E i \in DOMAIN data.obs_se : data.obs_se[i] <= 0) =>
          /\ ~last.ok
          /\ last.trace = <<"intercept", "check">>
    /\ last.ok => \A i \in DOMAIN last.self.obs_se : last.self.obs_se[i] > 0

\* A call on a dataset with a non-positive obs_se.
C3_Witness ==
    /\ last.called /\ ~last.ok
    /\ \E i \in DOMAIN data.obs_se : data.obs_se[i] <= 0
    /\ \E i \in DOMAIN data.obs_se : data.obs_se[i] > 0

\* C4: the covariate mapping of a returned aggregate is never empty; no
\* covariates (None or an empty dict) with add_intercept = False gives a
\* warning and an "intercept" column of num_obs ones; the intercept is
\* missing only if the caller gave a covariate and add_intercept = False.
C4_CovsNonEmpty ==
    last.ok =>
        LET self == last.self
            none_given == DOMAIN last.covs_in = {}
        IN  /\ DOMAIN self.covs # {}
            /\ (none_given /\ ~last.add_intercept) =>
                  /\ last.warned
                  /\ Intercept \in DOMAIN self.covs
                  /\ self.covs[Intercept] = ones(self.num_obs)
            /\ Intercept \notin DOMAIN self.covs =>
                  (~none_given /\ ~last.add_intercept)

\* The opt-out with the caller's empty dict.
C4_Witness ==
    /\ last.ok /\ last.covs_given /\ ~last.add_intercept
    /\ DOMAIN last.covs_in = {}

\* C5: the aggregate exposes the largest and the smallest label of the
\* union, the alt-only and the ref-only structure, each taken from that
\* structure's own counts.
C5_ExtremeLabels ==
    last.ok =>
        LET self == last.self
        IN  /\ self.max_dorm = self.unique_dorms[argmax(self.dorm_sizes)]
            /\ self.min_dorm = self.unique_dorms[argmin(self.dorm_sizes)]
            /\ self.max_alt_dorm = self.unique_alt_dorms[argmax(self.alt_dorm_sizes)]
            /\ self.max_ref_dorm = self.unique_ref_dorms[argmax(self.ref_dorm_sizes)]
            /\ self.min_alt_dorm = self.unique_alt_dorms[argmin(self.alt_dorm_sizes)]
            /\ "min_ref_dorm" \in DOMAIN self
            /\ self.min_ref_dorm = self.unique_ref_dorms[argmin(self.ref_dorm_sizes)]

SameArguments(c1, c2) ==
    /\ c1.covs_given = c2.covs_given
    /\ c1.sid_given = c2.sid_given
    /\ c1.add_intercept = c2.add_intercept

\* C6: a construction leaves the caller's covariate dict as it was given,
\* and two successive constructions from the same dict object and the same
\* other arguments end alike and return equal aggregates.
C6_ConstructionPure ==
    /\ (last.called /\ last.covs_given) => callerCovs = last.covs_in
    /\ (prev.called /\ last.called /\ last.covs_given /\ SameArguments(prev, last)) =>
          /\ last.ok = prev.ok
          /\ last.ok => last.self = prev.self

\* C7: outside the override, every covariate name the caller gave maps in
\* the aggregate to the caller's values for it, moved by the sort permutation.
C7_CallerCovsKept ==
    (last.ok /\ ~last.warned) =>
        \A name \in DOMAIN last.covs_in :
            /\ name \in DOMAIN last.self.covs
            /\ last.self.covs[name] =
                  IF last.sid_given THEN Take(last.covs_in[name], last.sort_id)
                                    ELSE last.covs_in[name]

\* C8: check run again on an aggregate a construction returned does not fail.
C8_RecheckNeverFails ==
    \A c \in {last, prev} :
        c.ok => check([c.self EXCEPT !.covs = Covs(c.self)])

\* C9: the keys of dorm_idx are the labels that occur in alt_dorms or
\* ref_dorms, each mapped to its zero-based rank in ascending order, the
\* ranks being 0..num_dorms-1; every record's labels are keys.
C9_DormIdxIsRank ==
    last.ok =>
        LET self == last.self
            labels == {ToStr(data.alt_dorms[i]) : i \in DOMAIN data.alt_dorms}
                        \cup {ToStr(data.ref_dorms[i]) : i \in DOMAIN data.ref_dorms}
        IN  /\ DOMAIN self.dorm_idx = labels
            /\ self.num_dorms = Cardinality(labels)
            /\ \A d \in labels :
                  self.dorm_idx[d] = Cardinality({e \in labels : StrLess(e, d)})
            /\ {self.dorm_idx[d] : d \in labels} = 0..(self.num_dorms - 1)
            /\ \A i \in DOMAIN self.alt_dorms :
                  /\ self.alt_dorms[i] \in DOMAIN self.dorm_idx
                  /\ self.ref_dorms[i] \in DOMAIN self.dorm_idx

\* Two labels whose string order is not their numeric order, after a sort.
C9_Witness ==
    /\ last.ok /\ last.sid_given
    /\ last.self.num_dorms = 2
    /\ \E i \in DOMAIN last.sort_id : last.sort_id[i] # i

\* C10: study_sizes has num_studies entries that sum to num_obs; with
\* study_id, block i of study_sizes[i] consecutive records holds exactly the
\* records of unique_study_id[i]; without, every record is a study of size
\* one, unique_study_id is None and the records stay as given.
C10_StudyBlocks ==
    last.ok =>
        LET self == last.self
            n == self.num_obs
        IN  /\ Len(self.study_sizes) = self.num_studies
            /\ SumTo(self.study_sizes, self.num_studies) = n
            /\ IF last.sid_given
               THEN /\ self.unique_study_id.some
                    /\ Len(self.unique_study_id.val) = self.num_studies
                    /\ \A i \in 1..self.num_studies : \A k \in 1..n :
                         (SumTo(self.study_sizes, i - 1) < k
                              /\ k <= SumTo(self.study_sizes, i))
                           <=> self.study_id.val[k] = self.unique_study_id.val[i]
               ELSE /\ self.num_studies = n
                    /\ \A i \in 1..n : self.study_sizes[i] = 1
                    /\ ~self.unique_study_id.some
                    /\ ~self.study_id.some
                    /\ self.obs = data.obs
                    /\ self.obs_se = data.obs_se
                    /\ self.alt_dorms = astype_str(data.alt_dorms)
                    /\ self.ref_dorms = astype_str(data.ref_dorms)
                    /\ self.covs = last.covs_checked

\* Two studies given out of order, sorted into two blocks.
C10_Witness ==
    /\ last.ok /\ last.sid_given
    /\ last.self.num_studies = 2
    /\ \E i \in DOMAIN last.sort_id : last.sort_id[i] # i

====
